---- MODULE Spec2Model ----
(***************************************************************************)
(* Model of wagtail/locks.py: the lock objects that decide whether a user  *)
(* is blocked from editing a lockable object, and which message explains   *)
(* the lock.  The code is a set of pure methods over the fields of one     *)
(* object, one user and the Django settings; the state machine draws those *)
(* inputs in Init, constructs a lock and calls its methods, recording what *)
(* each call returned (or raised) in `result`.                             *)
(***************************************************************************)
EXTENDS Integers, Sequences, FiniteSets, TLC

VARIABLES settings, object, user, lock, result

vars == <<settings, object, user, lock, result>>

(***************************** bounds **************************************)
\* Primary keys of saved users are 1..MaxUserPk.
MaxUserPk == 2
\* A workflow state has 0..MaxTasks tasks.
MaxTasks == 2

(************************* Python values ***********************************)
\* An optional value is a sequence of length <= 1: None is the empty one.
None == <<>>
Some(v) == <<v>>
Val(o) == o[1]

\* Python truthiness of an optional model instance or datetime: both are
\* truthy whenever they are not None.
Truthy(o) == o # None

\* What a call returned, or the exception that ended it.
PyNone == [tag |-> "None", bool |-> FALSE, text |-> <<>>]
PyBool(b) == [tag |-> "bool", bool |-> b, text |-> <<>>]
SafeString(text) == [tag |-> "SafeString", bool |-> FALSE, text |-> text]
AttributeError == [tag |-> "AttributeError", bool |-> FALSE, text |-> <<>>]

(************************** input domains **********************************)
UserPks == 1..MaxUserPk
OptPks == {None} \cup {Some(p) : p \in UserPks}

DateTimes ==
    { [day |-> 5, month |-> 3, year |-> 2024, hour |-> 9, minute |-> 7],
      [day |-> 17, month |-> 11, year |-> 2023, hour |-> 14, minute |-> 30] }
OptDateTimes == {None} \cup {Some(d) : d \in DateTimes}

GoLive == [day |-> 24, month |-> 12, year |-> 2024, hour |-> 0, minute |-> 0]

Titles == {"Home", "Q&A"}
Models == {"Page", "Advert"}

Users == [pk : OptPks]

ScheduledRevisions(title) ==
    {None} \cup
    { Some([approved_go_live_at |-> g, object_str |-> title]) :
        g \in {None, Some(GoLive)} }

TaskNames(n) == [i \in 1..n |-> "Task" \o ToString(i)]

WorkflowStates ==
    {None} \cup
    { Some([workflow |-> [name |-> "Approval"], tasks |-> TaskNames(n)]) :
        n \in 0..MaxTasks }

Objects ==
    UNION { [ model : Models,
              title : {t},
              locked_by_id : OptPks,
              locked_at : OptDateTimes,
              scheduled_revision : ScheduledRevisions(t),
              current_workflow_state : WorkflowStates ] : t \in Titles }

\* A workflow task: its name and the rule it applies, given as the set of
\* user pks (None included) for which it reports the page as locked.
Tasks == [name : {"Review"}, locked_for : SUBSET OptPks]

\* settings either lacks WAGTAILADMIN_GLOBAL_PAGE_EDIT_LOCK or sets it.
SettingsValues ==
    { [n \in {} |-> FALSE] } \cup
    { [n \in {"WAGTAILADMIN_GLOBAL_PAGE_EDIT_LOCK"} |-> b] : b \in BOOLEAN }

\* `result` keeps what the latest call of each method on the current lock
\* returned; NotCalled until the method is called.
NotCalled == [tag |-> "not called", bool |-> FALSE, text |-> <<>>]
NoCall == [for_user |-> NotCalled, get_message |-> NotCalled]

(********************** library functions the code calls *******************)
\* getattr(obj, name, default) on the settings object.
getattr(obj, name, default) ==
    IF name \in DOMAIN obj THEN obj[name] ELSE default

Pad2(n) == IF n < 10 THEN "0" \o ToString(n) ELSE ToString(n)

MonthAbbr ==
    <<"Jan", "Feb", "Mar", "Apr", "May", "Jun",
      "Jul", "Aug", "Sep", "Oct", "Nov", "Dec">>

\* datetime.strftime("%d %b %Y %H:%M")
strftime(d) ==
    Pad2(d.day) \o " " \o MonthAbbr[d.month] \o " " \o ToString(d.year)
        \o " " \o Pad2(d.hour) \o ":" \o Pad2(d.minute)

\* conditional_escape, as format_html applies it to every argument: of the
\* strings the model passes only the title "Q&A" holds a character that
\* HTML escaping rewrites.
conditional_escape(s) == IF s = "Q&A" THEN "Q&amp;A" ELSE s

Lit(s) == [lit |-> TRUE, s |-> s]
Arg(name) == [lit |-> FALSE, s |-> name]

\* format_html(template, **kwargs): the template's literal pieces with each
\* placeholder replaced by its escaped argument.  A text is kept as the
\* sequence of its pieces.
format_html(template, kwargs) ==
    [i \in 1..Len(template) |->
        IF template[i].lit THEN template[i].s
        ELSE conditional_escape(kwargs[template[i].s])]

\* capfirst: the first character of the text in upper case.  The only text
\* it is given starts with the model's verbose name.
capfirst(text) ==
    IF text = <<>> THEN text
    ELSE [text EXCEPT ![1] = IF @ = "advert" THEN "Advert"
                             ELSE IF @ = "page" THEN "Page" ELSE @]

(************************ the object's accessors ***************************)
\* str(user): the user name of a saved user.
UserStr(u) == "user" \o ToString(Val(u.pk))

\* object.locked_by: the foreign key locked_by_id resolved to the user.
locked_by(obj) ==
    IF obj.locked_by_id = None THEN None
    ELSE Some([pk |-> obj.locked_by_id])

get_admin_display_title(obj) == obj.title

verbose_name(obj) == IF obj.model = "Page" THEN "page" ELSE "advert"

\* Task.page_locked_for_user(object, user), the task's own rule.
page_locked_for_user(task, obj, u) == u.pk \in task.locked_for

\* current_workflow_state.all_tasks_with_status()
all_tasks_with_status(state) == state.tasks

(****************************** BaseLock ***********************************)
\* BaseLock.__init__: keeps the object and whether it is a Page.
BaseLock_init(kind, obj, task) ==
    [kind |-> kind, object |-> obj, is_page |-> (obj.model = "Page"),
     task |-> task]

(****************************** BasicLock **********************************)
MsgLockedByYouOn ==
    <<Lit("<b>Page '"), Arg("page_title"),
      Lit("' was locked</b> by <b>you</b> on <b>"), Arg("datetime"),
      Lit("</b>.")>>
MsgLockedByYou ==
    <<Lit("<b>Page '"), Arg("page_title"),
      Lit("' is locked</b> by <b>you</b>.")>>
MsgLockedByUserOn ==
    <<Lit("<b>Page '"), Arg("page_title"), Lit("' was locked</b> by <b>"),
      Arg("user"), Lit("</b> on <b>"), Arg("datetime"), Lit("</b>.")>>
MsgLocked ==
    <<Lit("<b>Page '"), Arg("page_title"), Lit("' is locked</b>.")>>

\* Variant that forgets the global-lock setting.
BasicLock_for_user_NoGlobal(self, u) ==
    PyBool(u.pk # self.object.locked_by_id)

BasicLock_for_user(self, u) ==
    IF getattr(settings, "WAGTAILADMIN_GLOBAL_PAGE_EDIT_LOCK", FALSE)
    THEN PyBool(TRUE)
    ELSE PyBool(u.pk # self.object.locked_by_id)

\* Variant that, under the global lock, no longer tells the locker apart.
BasicLock_get_message_GlobalAware(self, u) ==
    IF self.object.locked_by_id = u.pk
       /\ ~getattr(settings, "WAGTAILADMIN_GLOBAL_PAGE_EDIT_LOCK", FALSE)
    THEN IF Truthy(self.object.locked_at)
         THEN SafeString(format_html(MsgLockedByYouOn,
                [page_title |-> get_admin_display_title(self.object),
                 datetime |-> strftime(Val(self.object.locked_at))]))
         ELSE SafeString(format_html(MsgLockedByYou,
                [page_title |-> get_admin_display_title(self.object)]))
    ELSE IF Truthy(locked_by(self.object)) /\ Truthy(self.object.locked_at)
         THEN SafeString(format_html(MsgLockedByUserOn,
                [page_title |-> get_admin_display_title(self.object),
                 user |-> UserStr(Val(locked_by(self.object))),
                 datetime |-> strftime(Val(self.object.locked_at))]))
         ELSE SafeString(format_html(MsgLocked,
                [page_title |-> get_admin_display_title(self.object)]))

\* Variant that compares the users instead of the keys, so that an object
\* nobody locked is never "locked by you".
BasicLock_get_message_ByObject(self, u) ==
    IF Truthy(locked_by(self.object)) /\ Val(locked_by(self.object)) = u
    THEN IF Truthy(self.object.locked_at)
         THEN SafeString(format_html(MsgLockedByYouOn,
                [page_title |-> get_admin_display_title(self.object),
                 datetime |-> strftime(Val(self.object.locked_at))]))
         ELSE SafeString(format_html(MsgLockedByYou,
                [page_title |-> get_admin_display_title(self.object)]))
    ELSE IF Truthy(locked_by(self.object)) /\ Truthy(self.object.locked_at)
         THEN SafeString(format_html(MsgLockedByUserOn,
                [page_title |-> get_admin_display_title(self.object),
                 user |-> UserStr(Val(locked_by(self.object))),
                 datetime |-> strftime(Val(self.object.locked_at))]))
         ELSE SafeString(format_html(MsgLocked,
                [page_title |-> get_admin_display_title(self.object)]))

BasicLock_get_message(self, u) ==
    IF self.object.locked_by_id = u.pk
    THEN IF Truthy(self.object.locked_at)
         THEN SafeString(format_html(MsgLockedByYouOn,
                [page_title |-> get_admin_display_title(self.object),
                 datetime |-> strftime(Val(self.object.locked_at))]))
         ELSE SafeString(format_html(MsgLockedByYou,
                [page_title |-> get_admin_display_title(self.object)]))
    ELSE IF Truthy(locked_by(self.object)) /\ Truthy(self.object.locked_at)
         THEN SafeString(format_html(MsgLockedByUserOn,
                [page_title |-> get_admin_display_title(self.object),
                 user |-> UserStr(Val(locked_by(self.object))),
                 datetime |-> strftime(Val(self.object.locked_at))]))
         ELSE SafeString(format_html(MsgLocked,
                [page_title |-> get_admin_display_title(self.object)]))

(***************************** WorkflowLock ********************************)
MsgAwaitingModeration == <<"This page is currently awaiting moderation.">>
MsgAwaitingTask ==
    <<Lit("This page is awaiting <b>'"), Arg("task_name"),
      Lit("'</b> in the <b>'"), Arg("workflow_name"), Lit("'</b> workflow.")>>
MsgOnlyReviewers == "Only reviewers for this task can edit the page."

\* Variant that lets the user who locked the object through.
WorkflowLock_for_user_LockerPasses(self, u) ==
    PyBool(page_locked_for_user(Val(self.task), self.object, u)
           /\ u.pk # self.object.locked_by_id)

WorkflowLock_for_user(self, u) ==
    PyBool(page_locked_for_user(Val(self.task), self.object, u))

\* Variant that also takes a workflow state without tasks for a
\* single-task workflow.
WorkflowLock_locked_message_AtMostOne(self) ==
    LET state == self.object.current_workflow_state
        workflow_info ==
            IF Len(all_tasks_with_status(Val(state))) <= 1
            THEN MsgAwaitingModeration
            ELSE format_html(MsgAwaitingTask,
                   [task_name |-> Val(self.task).name,
                    workflow_name |-> Val(state).workflow.name])
    IN  IF state = None THEN AttributeError
        ELSE SafeString(workflow_info \o <<" ", MsgOnlyReviewers>>)

\* The branch taken once for_user(user) is true.  Reading a field of an
\* absent current_workflow_state raises AttributeError.
WorkflowLock_locked_message(self) ==
    LET state == self.object.current_workflow_state
        workflow_info ==
            IF Len(all_tasks_with_status(Val(state))) = 1
            THEN MsgAwaitingModeration
            ELSE format_html(MsgAwaitingTask,
                   [task_name |-> Val(self.task).name,
                    workflow_name |-> Val(state).workflow.name])
    IN  IF state = None THEN AttributeError
        ELSE SafeString(workflow_info \o <<" ", MsgOnlyReviewers>>)

\* Variant that drops the for_user test.
WorkflowLock_get_message_Unconditional(self, u) ==
    WorkflowLock_locked_message(self)

WorkflowLock_get_message(self, u) ==
    IF WorkflowLock_for_user(self, u).bool
    THEN WorkflowLock_locked_message(self)
    ELSE PyNone

(************************ ScheduledForPublishLock **************************)
MsgPageScheduled ==
    <<Lit("Page '"), Arg("page_title"),
      Lit("' is locked and has been scheduled to go live at "),
      Arg("datetime")>>
MsgObjectScheduled ==
    <<Arg("model_name"), Lit(" '"), Arg("title"),
      Lit("' is locked and has been scheduled to go live at "),
      Arg("datetime")>>

\* Variant that applies BasicLock's rule.
ScheduledForPublishLock_for_user_AsBasic(self, u) ==
    PyBool(u.pk # self.object.locked_by_id)

ScheduledForPublishLock_for_user(self, u) == PyBool(TRUE)

\* Reading a field of an absent scheduled_revision, or calling strftime on
\* an absent approved_go_live_at, raises AttributeError.
ScheduledForPublishLock_get_message(self, u) ==
    LET scheduled_revision == self.object.scheduled_revision IN
    IF scheduled_revision = None THEN AttributeError
    ELSE IF Val(scheduled_revision).approved_go_live_at = None
    THEN AttributeError
    ELSE LET datetime ==
                 strftime(Val(Val(scheduled_revision).approved_go_live_at))
         IN  IF self.is_page
             THEN SafeString(format_html(MsgPageScheduled,
                    [page_title |-> get_admin_display_title(self.object),
                     datetime |-> datetime]))
             ELSE SafeString(capfirst(format_html(MsgObjectScheduled,
                    [model_name |-> verbose_name(self.object),
                     title |-> Val(scheduled_revision).object_str,
                     datetime |-> datetime])))

(***************************** state machine *******************************)
Init ==
    /\ settings \in SettingsValues
    /\ object \in Objects
    /\ user \in Users
    /\ lock = None
    /\ result = NoCall

\* BasicLock(object)
NewBasicLock ==
    /\ lock' = Some(BaseLock_init("BasicLock", object, None))
    /\ result' = NoCall
    /\ UNCHANGED <<settings, object, user>>

\* WorkflowLock(object, task)
NewWorkflowLock ==
    \E task \in Tasks :
        /\ lock' = Some(BaseLock_init("WorkflowLock", object, Some(task)))
        /\ result' = NoCall
        /\ UNCHANGED <<settings, object, user>>

\* ScheduledForPublishLock(object)
NewScheduledForPublishLock ==
    /\ lock' = Some(BaseLock_init("ScheduledForPublishLock", object, None))
    /\ result' = NoCall
    /\ UNCHANGED <<settings, object, user>>

HasLock(kind) == lock # None /\ Val(lock).kind = kind

Call(kind, op, ret) ==
    /\ HasLock(kind)
    /\ result' = [result EXCEPT ![op] = ret]
    /\ UNCHANGED <<settings, object, user, lock>>

CallBasicLockForUser ==
    Call("BasicLock", "for_user", BasicLock_for_user(Val(lock), user))
CallBasicLockGetMessage ==
    Call("BasicLock", "get_message", BasicLock_get_message(Val(lock), user))
CallWorkflowLockForUser ==
    Call("WorkflowLock", "for_user", WorkflowLock_for_user(Val(lock), user))
CallWorkflowLockGetMessage ==
    Call("WorkflowLock", "get_message",
         WorkflowLock_get_message(Val(lock), user))
CallScheduledForPublishLockForUser ==
    Call("ScheduledForPublishLock", "for_user",
         ScheduledForPublishLock_for_user(Val(lock), user))
CallScheduledForPublishLockGetMessage ==
    Call("ScheduledForPublishLock", "get_message",
         ScheduledForPublishLock_get_message(Val(lock), user))

Next ==
    \/ NewBasicLock
    \/ NewWorkflowLock
    \/ NewScheduledForPublishLock
    \/ CallBasicLockForUser
    \/ CallBasicLockGetMessage
    \/ CallWorkflowLockForUser
    \/ CallWorkflowLockGetMessage
    \/ CallScheduledForPublishLockForUser
    \/ CallScheduledForPublishLockGetMessage

Spec == Init /\ [][Next]_vars

TypeOK ==
    /\ settings \in SettingsValues
    /\ object \in Objects
    /\ user \in Users
    /\ result.for_user.tag \in {"not called", "bool"}
    /\ result.get_message.tag \in
           {"not called", "None", "SafeString", "AttributeError"}

(*************************** vocabulary of the claims **********************)
GlobalLockOn ==
    /\ "WAGTAILADMIN_GLOBAL_PAGE_EDIT_LOCK" \in DOMAIN settings
    /\ settings["WAGTAILADMIN_GLOBAL_PAGE_EDIT_LOCK"]

\* The user is the one who set the lock: somebody locked the object, and
\* it was this user.
UserSetTheLock == object.locked_by_id # None /\ user.pk = object.locked_by_id

SameKey == user.pk = object.locked_by_id

Called(kind, op) == HasLock(kind) /\ result[op] # NotCalled

IsMessage(ret) == ret.tag = "SafeString"
Raised(ret) == ret.tag = "AttributeError"

Has(text, piece) == \E i \in 1..Len(text) : text[i] = piece

ByYou(text) ==
    \/ Has(text, "' was locked</b> by <b>you</b> on <b>")
    \/ Has(text, "' is locked</b> by <b>you</b>.")
HasDate(text) == \E d \in DateTimes : Has(text, strftime(d))
NamesUser(text) == \E p \in UserPks : Has(text, "user" \o ToString(p))

TitleShown == IF object.title = "Q&A" THEN "Q&amp;A" ELSE object.title
GenericText == <<"<b>Page '", TitleShown, "' is locked</b>.">>
ByYouNoDateText == <<"<b>Page '", TitleShown, "' is locked</b> by <b>you</b>.">>

TaskRuleSays == user.pk \in Val(Val(lock).task).locked_for

(*************************** C1 ********************************************)
\* C1: whenever BasicLock.for_user returns false, the global-lock setting
\* is off and the user is the one who set the lock on the object.
C1_FalseOnlyForLocker ==
    (Called("BasicLock", "for_user") /\ result.for_user = PyBool(FALSE))
        => (~GlobalLockOn /\ UserSetTheLock)

(*************************** C2 ********************************************)
\* C2: with the global-lock setting true BasicLock.for_user returns true
\* for every user, the locker included; with it off or unset for_user
\* returns true for every user whose pk differs from locked_by_id.
C2_LockedUnlessOffAndLocker ==
    Called("BasicLock", "for_user") =>
        /\ GlobalLockOn => result.for_user = PyBool(TRUE)
        /\ (~GlobalLockOn /\ ~SameKey) => result.for_user = PyBool(TRUE)

C2_Witness ==
    /\ Called("BasicLock", "for_user")
    /\ GlobalLockOn /\ UserSetTheLock
    /\ result.for_user = PyBool(TRUE)

(*************************** C3 ********************************************)
\* C3: ScheduledForPublishLock.for_user returns true for every user and
\* object, whoever set a lock and whatever the global-lock setting is.
C3_ScheduledAlwaysLocked ==
    Called("ScheduledForPublishLock", "for_user")
        => result.for_user = PyBool(TRUE)

C3_Witness ==
    /\ Called("ScheduledForPublishLock", "for_user")
    /\ ~GlobalLockOn /\ UserSetTheLock
    /\ object.scheduled_revision = None
    /\ result.for_user = PyBool(TRUE)

C5_FallbackMessages ==
    Called("BasicLock", "get_message") =>
        /\ IsMessage(result.get_message)
        /\ (~UserSetTheLock
               /\ (object.locked_by_id = None \/ object.locked_at = None))
              => result.get_message.text = GenericText
        /\ (UserSetTheLock /\ object.locked_at = None)
              => result.get_message.text = ByYouNoDateText

(*************************** C6 ********************************************)
\* C6: ScheduledForPublishLock.get_message on an object without scheduled
\* revision or without approved go-live time, and WorkflowLock.get_message
\* on an object without workflow state, do not end in an error.
C6_NoErrorOnAbsentFields ==
    /\ ( /\ Called("ScheduledForPublishLock", "get_message")
         /\ \/ object.scheduled_revision = None
            \/ Val(object.scheduled_revision).approved_go_live_at = None )
          => ~Raised(result.get_message)
    /\ ( /\ Called("WorkflowLock", "get_message")
         /\ object.current_workflow_state = None )
          => ~Raised(result.get_message)

(*************************** C7 ********************************************)
\* C7: WorkflowLock.get_message is none if and only if for_user is false,
\* and every message it returns ends with the "Only reviewers" sentence.
C7_MessageIffLocked ==
    (Called("WorkflowLock", "for_user") /\ Called("WorkflowLock", "get_message"))
      =>
        /\ (result.get_message = PyNone) <=> (result.for_user = PyBool(FALSE))
        /\ IsMessage(result.get_message) =>
              result.get_message.text[Len(result.get_message.text)]
                  = "Only reviewers for this task can edit the page."

C7_Witness ==
    /\ Called("WorkflowLock", "for_user")
    /\ Called("WorkflowLock", "get_message")
    /\ result.for_user = PyBool(TRUE)
    /\ IsMessage(result.get_message)

(*************************** C8 ********************************************)
\* C8: when WorkflowLock applies to the user, the message is the "currently
\* awaiting moderation" text if and only if the current workflow state has
\* exactly one task; for zero, two or more tasks it names the lock's task
\* and the workflow of the current workflow state.
C8_SimpleTextIffOneTask ==
    ( /\ Called("WorkflowLock", "get_message")
      /\ TaskRuleSays
      /\ object.current_workflow_state # None )
      =>
        LET state == Val(object.current_workflow_state)
            text == result.get_message.text
        IN  /\ IsMessage(result.get_message)
            /\ Has(text, "This page is currently awaiting moderation.")
                  <=> Len(state.tasks) = 1
            /\ Len(state.tasks) # 1 =>
                  SubSeq(text, 1, 5) =
                      <<"This page is awaiting <b>'", Val(Val(lock).task).name,
                        "'</b> in the <b>'", state.workflow.name,
                        "'</b> workflow.">>

C8_Witness ==
    /\ Called("WorkflowLock", "get_message")
    /\ TaskRuleSays
    /\ object.current_workflow_state # None
    /\ Len(Val(object.current_workflow_state).tasks) = 0
    /\ Has(result.get_message.text, "'</b> workflow.")

(*************************** C9 ********************************************)
\* C9: BasicLock.get_message returns a "by you" text exactly when user.pk
\* equals locked_by_id, shows a date only when locked_at is present, and
\* names another user only when the user is not the locker and locked_by
\* and locked_at are both present; the global-lock setting plays no part.
C9_MessageForm ==
    Called("BasicLock", "get_message") =>
        LET text == result.get_message.text IN
        /\ IsMessage(result.get_message)
        /\ ByYou(text) <=> SameKey
        /\ HasDate(text) => object.locked_at # None
        /\ NamesUser(text) =>
              /\ ~SameKey
              /\ object.locked_by_id # None
              /\ object.locked_at # None

C9_Witness ==
    /\ Called("BasicLock", "get_message")
    /\ GlobalLockOn /\ UserSetTheLock
    /\ object.locked_at # None
    /\ ByYou(result.get_message.text)
    /\ HasDate(result.get_message.text)

(*************************** C10 *******************************************)
\* C10: with the global-lock setting off, BasicLock.for_user is false
\* exactly when BasicLock.get_message is one of the "locked by you" texts.
C10_DecisionAgreesWithMessage ==
    ( /\ Called("BasicLock", "for_user")
      /\ Called("BasicLock", "get_message")
      /\ ~GlobalLockOn )
      => ( (result.for_user = PyBool(FALSE))
             <=> ByYou(result.get_message.text) )

C10_Witness ==
    /\ Called("BasicLock", "for_user")
    /\ Called("BasicLock", "get_message")
    /\ ~GlobalLockOn
    /\ result.for_user = PyBool(FALSE)
    /\ ByYou(result.get_message.text)

====
